---- MODULE Spec2Model ----
(***************************************************************************)
(* Real-time collaboration core of the collaborative workspace: the        *)
(* Socket.IO authentication middleware and connection wiring of the        *)
(* collaboration service, and CollaborationHandler (join / leave / edit,   *)
(* the Redis presence sets and the Redis pub/sub relay between instances). *)
(*                                                                         *)
(* Every handler is an async function: it runs synchronously up to the     *)
(* next await, where other handlers may run.  A handler in flight is a     *)
(* record of `tasks`; its pc names the call it is awaiting.  An external   *)
(* call (MongoDB, Redis) takes effect when it is issued; the continuation  *)
(* after the await is a later step.                                        *)
(***************************************************************************)
EXTENDS Integers, Sequences, FiniteSets, TLC

(***************************************************************************)
(* Bounds of the model.                                                    *)
(***************************************************************************)
\* client events (join, leave, edit, disconnect) accepted in one behaviour
MaxEvents == 2
\* external calls (MongoDB, Redis) that may fail in one behaviour
MaxFaults == 1

(***************************************************************************)
(* The universe: users, documents, instances, client connections.          *)
(***************************************************************************)
Users == {1, 2, 3}
Docs == {"dA", "dB"}
Insts == {"i1", "i2"}
Conns == {"s1", "s2", "s3"}
Contents == {"x", "y"}
Null == "null"
NoUser == 0

\* the calls to MongoDB and Redis
ExternalCalls == {"findById", "save", "sAdd", "sMembers", "sRem", "publish"}

\* the instance a client connection is made to (two on i1, one on i2)
ConnInst == [c \in Conns |-> IF c = "s3" THEN "i2" ELSE "i1"]

\* the bearer tokens a client may present at the handshake: "" is no token,
\* "forged" fails the signature check, "expired" the expiry check
ClientTokens ==
    [c \in Conns |-> CASE c = "s1" -> {"jwt1"}
                       [] c = "s2" -> {"jwt2", "forged"}
                       [] OTHER    -> {"jwt3", "jwt1", "", "expired"}]

VARIABLES
    conn,             \* per connection: handshake status and socket.user.userId
    rooms,            \* per connection: the document rooms the socket is in
    currentDocument,  \* per connection: socket.currentDocument
    activeUsers,      \* per instance: this.activeUsers (documentId -> Set of userIds)
    docs,             \* MongoDB: the Document collection
    presence,         \* Redis: the sets document:<id>:users
    relay,            \* Redis pub/sub: per instance, the messages not yet delivered
    tasks,            \* handlers in flight (suspended at an await)
    nextTid,          \* number of client events accepted so far, plus one
    outbox,           \* the events written to client sockets by the last step
    lastOp,           \* per (connection, document): the latest join/leave event
    joinOk,           \* the join events whose handler ran to its end
    saves,            \* the document.save() calls, in store order
    faultLog,         \* the external calls that failed
    faulty            \* the external calls that may fail in this behaviour

vars == <<conn, rooms, currentDocument, activeUsers, docs, presence, relay,
          tasks, nextTid, outbox, lastOp, joinOk, saves, faultLog, faulty>>

(***************************************************************************)
(* jwt.verify(token, JWT_SECRET): the decoded payload, or an exception.    *)
(***************************************************************************)
\* the payload a token carries, whoever signed it and whenever it expires
JwtDecode(token) ==
    CASE token = "jwt1" -> 1
      [] token = "jwt2" -> 2
      [] token = "jwt3" -> 3
      [] token = "forged" -> 2
      [] token = "expired" -> 3
      [] OTHER -> NoUser

JwtVerify(token) ==
    CASE token = "jwt1" -> 1
      [] token = "jwt2" -> 2
      [] token = "jwt3" -> 3
      [] OTHER -> NoUser

(***************************************************************************)
(* userId.toString() and parseInt(id) on the presence set's members.       *)
(***************************************************************************)
UserIdToString(u) == CASE u = 1 -> "1" [] u = 2 -> "2" [] u = 3 -> "3" [] OTHER -> "NaN"

ParseInt(s) == CASE s = "1" -> 1 [] s = "2" -> 2 [] s = "3" -> 3 [] OTHER -> NoUser

(***************************************************************************)
(* The Document collection at start: dA is private, owned by 1, with 2 a   *)
(* 'write' and 3 a 'read' collaborator; dB is owned by 2 with 1 an 'admin' *)
(* collaborator, public or not.  Schema defaults: content '', version 1.   *)
(***************************************************************************)
NoPermission == "none"

InitDocs(pub) ==
    [d \in Docs |->
        IF d = "dA"
        THEN [ownerId |-> 1,
              collaborators |-> [u \in Users |-> CASE u = 2 -> "write"
                                                   [] u = 3 -> "read"
                                                   [] OTHER -> NoPermission],
              isPublic |-> FALSE, content |-> "", version |-> 1,
              lastEditedBy |-> NoUser]
        ELSE [ownerId |-> 2,
              collaborators |-> [u \in Users |-> CASE u = 1 -> "admin"
                                                   [] OTHER -> NoPermission],
              isPublic |-> pub, content |-> "", version |-> 1,
              lastEditedBy |-> NoUser]]

\* the token auth-service signed for a user (jwt.sign with JWT_SECRET)
TokenOf(u) == CASE u = 1 -> "jwt1" [] u = 2 -> "jwt2" [] u = 3 -> "jwt3" [] OTHER -> ""

\* A quiescent state of the service: no handler in flight, no relayed message
\* pending.  tab gives the verified user of each connected socket (NoUser: the
\* client has not connected yet), joined the document a socket has joined
\* (Null: none), with the room, socket.currentDocument, the local map and the
\* Redis set as the join left them.  Event 0 stands for joins before the start.
\* The external calls named in calls may fail.
World(tab, joined, pub, calls) ==
    /\ conn = [c \in Conns |-> IF tab[c] = NoUser
                               THEN [status |-> "idle", user |-> NoUser, token |-> ""]
                               ELSE [status |-> "connected", user |-> tab[c],
                                     token |-> TokenOf(tab[c])]]
    /\ rooms = [c \in Conns |-> IF joined[c] = Null THEN {} ELSE {joined[c]}]
    /\ currentDocument = joined
    /\ activeUsers = [i \in Insts |-> [d \in Docs |->
                         {tab[c] : c \in {x \in Conns : ConnInst[x] = i /\ joined[x] = d}}]]
    /\ docs = InitDocs(pub)
    /\ presence = [d \in Docs |->
                      {UserIdToString(tab[c]) : c \in {x \in Conns : joined[x] = d}}]
    /\ relay = [i \in Insts |-> <<>>]
    /\ tasks = {}
    /\ nextTid = 1
    /\ outbox = {}
    /\ lastOp = [c \in Conns |-> [d \in Docs |->
                    IF joined[c] = d THEN [kind |-> "join", tid |-> 0]
                                     ELSE [kind |-> "none", tid |-> 0]]]
    /\ joinOk = {0}
    /\ saves = <<>>
    /\ faultLog = <<>>
    /\ faulty = calls

NobodyConnected == [c \in Conns |-> NoUser]
NobodyJoined == [c \in Conns |-> Null]

\* the service after start-up: no client has connected
Init == \E pub \in BOOLEAN : World(NobodyConnected, NobodyJoined, pub, ExternalCalls)

(***************************************************************************)
(* Helpers: the identity and instance of a socket, suspended handlers,     *)
(* failing calls, and the events emitted to clients.                       *)
(***************************************************************************)
UserOf(c) == conn[c].user

\* whether the call op fails (rejects): it may, if it is one of the faulty
\* calls and fewer than MaxFaults calls have failed
MayFail(op) ==
    IF op \in faulty /\ Len(faultLog) < MaxFaults THEN {FALSE, TRUE} ELSE {FALSE}

LogFault(f, op, tid) ==
    /\ faultLog' = IF f THEN Append(faultLog, [op |-> op, tid |-> tid]) ELSE faultLog
    /\ UNCHANGED faulty

\* a handler started for an event of socket c; wasInRoom remembers whether the
\* socket was in the document's room when the event arrived
NewTask(tid, c, kind, d, content, pc, f) ==
    [id |-> tid, sock |-> c, kind |-> kind, documentId |-> d, content |-> content,
     pc |-> pc, document |-> docs[d], activeUserIds |-> {}, failed |-> f,
     wasInRoom |-> d \in rooms[c]]

Suspend(t, t2) == tasks' = (tasks \ {t}) \cup {t2}

Finish(t) == tasks' = tasks \ {t}

\* the payload of an emitted event; fields an event does not carry stay blank
Msg(type, d, tid) ==
    [type |-> type, documentId |-> d, tid |-> tid, userId |-> NoUser,
     socketId |-> Null, action |-> "", activeUsers |-> {}, content |-> "",
     version |-> 0, via |-> ""]

\* a broadcast that reaches every connected socket of the instance, whatever
\* room it is in
InRoomWholeInstance(i, d) ==
    {c \in Conns : ConnInst[c] = i /\ conn[c].status = "connected"}

\* the sockets of instance i that are in room d (io.to(d) on instance i)
InRoom(i, d) ==
    {c \in Conns : ConnInst[c] = i /\ conn[c].status = "connected" /\ d \in rooms[c]}

\* the events written when m is emitted to the sockets in targets
Emit(targets, m, via) ==
    {[to |-> c, msg |-> [m EXCEPT !.via = via]] :
        c \in {x \in targets : conn[x].status = "connected"}}

ErrorMsg(t, text) == [Msg("error", t.documentId, t.id) EXCEPT !.action = text]

\* redisPub.publish(channel, JSON.stringify(m)): Redis hands the message to the
\* subscriber connection of every instance, in the order of the publishes
Publish(m, f) == relay' = IF f THEN relay ELSE [i \in Insts |-> Append(relay[i], m)]

(***************************************************************************)
(* io.use: the Socket.IO authentication middleware, and io.on('connection')*)
(***************************************************************************)
AuthenticateNoVerify(token) ==
    IF token = "" THEN NoUser ELSE JwtDecode(token)

\* the verified identity, or NoUser when next(new Error(...)) refuses the socket
Authenticate(token) ==
    IF token = "" THEN NoUser ELSE JwtVerify(token)

Connect(c, token) ==
    /\ conn[c].status = "idle"
    /\ conn' = [conn EXCEPT ![c] =
                  IF Authenticate(token) = NoUser
                  THEN [status |-> "refused", user |-> NoUser, token |-> token]
                  ELSE [status |-> "connected", user |-> Authenticate(token),
                        token |-> token]]
    /\ outbox' = {}
    /\ UNCHANGED <<rooms, currentDocument, activeUsers, docs, presence, relay,
                   tasks, nextTid, lastOp, joinOk, saves, faultLog, faulty>>

\* the handlers of handleConnection are registered on connected sockets only
Registered(c) == conn[c].status = "connected"

(***************************************************************************)
(* handleDocumentJoin                                                      *)
(***************************************************************************)
\* the isPublic test passes for every document that has the field
HasAccessIgnoresPrivacy(document, userId) ==
    \/ document.ownerId = userId
    \/ document.collaborators[userId] # NoPermission
    \/ document.isPublic \in BOOLEAN

HasAccess(document, userId) ==
    \/ document.ownerId = userId
    \/ document.collaborators[userId] # NoPermission
    \/ document.isPublic

PresenceData(t, action) ==
    [Msg("user:presence", t.documentId, t.id) EXCEPT
        !.userId = UserOf(t.sock), !.action = action,
        !.activeUsers = {ParseInt(s) : s \in t.activeUserIds}]

\* socket.on('document:join'): the handler starts and awaits Document.findById
DocumentJoin(c, d) ==
    /\ Registered(c)
    /\ nextTid <= MaxEvents
    /\ \E f \in MayFail("findById") :
          /\ tasks' = tasks \cup {NewTask(nextTid, c, "join", d, "", "findById", f)}
          /\ LogFault(f, "findById", nextTid)
    /\ lastOp' = [lastOp EXCEPT ![c][d] = [kind |-> "join", tid |-> nextTid]]
    /\ nextTid' = nextTid + 1
    /\ outbox' = {}
    /\ UNCHANGED <<conn, rooms, currentDocument, activeUsers, docs, presence,
                   relay, joinOk, saves>>

\* the catch block: socket.emit('error', 'Failed to join document')
JoinCatch(t) ==
    /\ outbox' = Emit({t.sock}, ErrorMsg(t, "Failed to join document"), "direct")
    /\ Finish(t)
    /\ UNCHANGED <<conn, rooms, currentDocument, activeUsers, docs, presence,
                   relay, nextTid, lastOp, joinOk, saves, faultLog, faulty>>

\* after findById: the access check, socket.join, and redis.sAdd
JoinAfterFindById(t) ==
    /\ t \in tasks /\ t.kind = "join" /\ t.pc = "findById"
    /\ IF t.failed THEN JoinCatch(t)
       ELSE IF ~HasAccess(t.document, UserOf(t.sock))
       THEN /\ outbox' = Emit({t.sock}, ErrorMsg(t, "Access denied"), "direct")
            /\ Finish(t)
            /\ UNCHANGED <<conn, rooms, currentDocument, activeUsers, docs, presence,
                           relay, nextTid, lastOp, joinOk, saves, faultLog, faulty>>
       ELSE /\ rooms' = [rooms EXCEPT ![t.sock] = @ \cup {t.documentId}]
            /\ currentDocument' = [currentDocument EXCEPT ![t.sock] = t.documentId]
            /\ activeUsers' = [activeUsers EXCEPT ![ConnInst[t.sock]][t.documentId] =
                                  @ \cup {UserOf(t.sock)}]
            /\ \E f \in MayFail("sAdd") :
                  /\ presence' = IF f THEN presence
                                 ELSE [presence EXCEPT ![t.documentId] =
                                          @ \cup {UserIdToString(UserOf(t.sock))}]
                  /\ Suspend(t, [t EXCEPT !.pc = "sAdd", !.failed = f])
                  /\ LogFault(f, "sAdd", t.id)
            /\ outbox' = {}
            /\ UNCHANGED <<conn, docs, relay, nextTid, lastOp, joinOk, saves>>

\* after sAdd: redis.sMembers
JoinAfterSAdd(t) ==
    /\ t \in tasks /\ t.kind = "join" /\ t.pc = "sAdd"
    /\ IF t.failed THEN JoinCatch(t)
       ELSE /\ \E f \in MayFail("sMembers") :
                  /\ Suspend(t, [t EXCEPT !.pc = "sMembers", !.failed = f,
                                          !.activeUserIds = presence[t.documentId]])
                  /\ LogFault(f, "sMembers", t.id)
            /\ outbox' = {}
            /\ UNCHANGED <<conn, rooms, currentDocument, activeUsers, docs, presence,
                           relay, nextTid, lastOp, joinOk, saves>>

\* after sMembers: presenceData is built and published to the relay
JoinAfterSMembers(t) ==
    /\ t \in tasks /\ t.kind = "join" /\ t.pc = "sMembers"
    /\ IF t.failed THEN JoinCatch(t)
       ELSE /\ \E f \in MayFail("publish") :
                  /\ Publish(PresenceData(t, "joined"), f)
                  /\ Suspend(t, [t EXCEPT !.pc = "publish", !.failed = f])
                  /\ LogFault(f, "publish", t.id)
            /\ outbox' = {}
            /\ UNCHANGED <<conn, rooms, currentDocument, activeUsers, docs, presence,
                           nextTid, lastOp, joinOk, saves>>

ContentMsg(t) ==
    [Msg("document:content", t.documentId, t.id) EXCEPT
        !.content = t.document.content, !.version = t.document.version]

\* after publish: io.to(documentId).emit('user:presence'), socket.emit('document:content')
JoinAfterPublish(t) ==
    /\ t \in tasks /\ t.kind = "join" /\ t.pc = "publish"
    /\ IF t.failed THEN JoinCatch(t)
       ELSE /\ outbox' = Emit(InRoom(ConnInst[t.sock], t.documentId),
                              PresenceData(t, "joined"), "local")
                         \cup Emit({t.sock}, ContentMsg(t), "direct")
            /\ joinOk' = joinOk \cup {t.id}
            /\ Finish(t)
            /\ UNCHANGED <<conn, rooms, currentDocument, activeUsers, docs, presence,
                           relay, nextTid, lastOp, saves, faultLog, faulty>>

(***************************************************************************)
(* handleDocumentLeave                                                     *)
(***************************************************************************)
\* a leave that removes from the presence store first and touches the socket
\* and the local map only when sRem has succeeded
LeaveStartRemoteFirst(c, d, tid, rms) ==
    \E f \in MayFail("sRem") :
        /\ rooms' = IF f THEN rms ELSE [rms EXCEPT ![c] = @ \ {d}]
        /\ currentDocument' = IF f THEN currentDocument
                              ELSE [currentDocument EXCEPT ![c] = Null]
        /\ activeUsers' = IF f THEN activeUsers
                          ELSE [activeUsers EXCEPT ![ConnInst[c]][d] = @ \ {UserOf(c)}]
        /\ presence' = IF f THEN presence
                       ELSE [presence EXCEPT ![d] = @ \ {UserIdToString(UserOf(c))}]
        /\ tasks' = tasks \cup {NewTask(tid, c, "leave", d, "", "sRem", f)}
        /\ LogFault(f, "sRem", tid)

\* the synchronous part: socket.leave, currentDocument = null, the local map,
\* and redis.sRem; the handler then awaits sRem
LeaveStart(c, d, tid, rms) ==
    /\ rooms' = [rms EXCEPT ![c] = @ \ {d}]
    /\ currentDocument' = [currentDocument EXCEPT ![c] = Null]
    /\ activeUsers' = [activeUsers EXCEPT ![ConnInst[c]][d] = @ \ {UserOf(c)}]
    /\ \E f \in MayFail("sRem") :
          /\ presence' = IF f THEN presence
                         ELSE [presence EXCEPT ![d] = @ \ {UserIdToString(UserOf(c))}]
          /\ tasks' = tasks \cup {NewTask(tid, c, "leave", d, "", "sRem", f)}
          /\ LogFault(f, "sRem", tid)

\* socket.on('document:leave')
DocumentLeave(c, d) ==
    /\ Registered(c)
    /\ nextTid <= MaxEvents
    /\ LeaveStart(c, d, nextTid, rooms)
    /\ lastOp' = [lastOp EXCEPT ![c][d] = [kind |-> "leave", tid |-> nextTid]]
    /\ nextTid' = nextTid + 1
    /\ outbox' = {}
    /\ UNCHANGED <<conn, docs, relay, joinOk, saves>>

\* the catch block only logs
LeaveCatch(t) ==
    /\ Finish(t)
    /\ outbox' = {}
    /\ UNCHANGED <<conn, rooms, currentDocument, activeUsers, docs, presence, relay,
                   nextTid, lastOp, joinOk, saves, faultLog, faulty>>

\* after sRem: redis.sMembers
LeaveAfterSRem(t) ==
    /\ t \in tasks /\ t.kind = "leave" /\ t.pc = "sRem"
    /\ IF t.failed THEN LeaveCatch(t)
       ELSE /\ \E f \in MayFail("sMembers") :
                  /\ Suspend(t, [t EXCEPT !.pc = "sMembers", !.failed = f,
                                          !.activeUserIds = presence[t.documentId]])
                  /\ LogFault(f, "sMembers", t.id)
            /\ outbox' = {}
            /\ UNCHANGED <<conn, rooms, currentDocument, activeUsers, docs, presence,
                           relay, nextTid, lastOp, joinOk, saves>>

\* after sMembers: presenceData is built and published to the relay
LeaveAfterSMembers(t) ==
    /\ t \in tasks /\ t.kind = "leave" /\ t.pc = "sMembers"
    /\ IF t.failed THEN LeaveCatch(t)
       ELSE /\ \E f \in MayFail("publish") :
                  /\ Publish(PresenceData(t, "left"), f)
                  /\ Suspend(t, [t EXCEPT !.pc = "publish", !.failed = f])
                  /\ LogFault(f, "publish", t.id)
            /\ outbox' = {}
            /\ UNCHANGED <<conn, rooms, currentDocument, activeUsers, docs, presence,
                           nextTid, lastOp, joinOk, saves>>

\* after publish: io.to(documentId).emit('user:presence')
LeaveAfterPublish(t) ==
    /\ t \in tasks /\ t.kind = "leave" /\ t.pc = "publish"
    /\ IF t.failed THEN LeaveCatch(t)
       ELSE /\ outbox' = Emit(InRoom(ConnInst[t.sock], t.documentId),
                                PresenceData(t, "left"), "local")
            /\ Finish(t)
            /\ UNCHANGED <<conn, rooms, currentDocument, activeUsers, docs, presence,
                           relay, nextTid, lastOp, joinOk, saves, faultLog, faulty>>

(***************************************************************************)
(* socket.on('disconnect') and handleDisconnection.  Socket.IO has taken   *)
(* the socket out of all its rooms before the 'disconnect' listeners run.  *)
(***************************************************************************)
Disconnect(c) ==
    /\ Registered(c)
    /\ nextTid <= MaxEvents
    /\ conn' = [conn EXCEPT ![c].status = "disconnected"]
    /\ IF currentDocument[c] # Null
       THEN LeaveStart(c, currentDocument[c], nextTid, [rooms EXCEPT ![c] = {}])
       ELSE /\ rooms' = [rooms EXCEPT ![c] = {}]
            /\ UNCHANGED <<currentDocument, activeUsers, presence, tasks, faultLog, faulty>>
    /\ nextTid' = nextTid + 1
    /\ outbox' = {}
    /\ UNCHANGED <<docs, relay, lastOp, joinOk, saves>>

(***************************************************************************)
(* handleDocumentEdit                                                      *)
(***************************************************************************)
HasWriteAccessAnyCollaborator(document, userId) ==
    \/ document.ownerId = userId
    \/ document.collaborators[userId] # NoPermission

HasWriteAccess(document, userId) ==
    \/ document.ownerId = userId
    \/ document.collaborators[userId] \in {"write", "admin"}

\* socket.on('document:edit'): the handler starts and awaits Document.findById
DocumentEdit(c, d, content) ==
    /\ Registered(c)
    /\ nextTid <= MaxEvents
    /\ \E f \in MayFail("findById") :
          /\ tasks' = tasks \cup {NewTask(nextTid, c, "edit", d, content, "findById", f)}
          /\ LogFault(f, "findById", nextTid)
    /\ nextTid' = nextTid + 1
    /\ outbox' = {}
    /\ UNCHANGED <<conn, rooms, currentDocument, activeUsers, docs, presence,
                   relay, lastOp, joinOk, saves>>

\* a catch block that, besides the error, still broadcasts the edit
EditCatchBroadcasts(t) ==
    /\ outbox' = Emit({t.sock}, ErrorMsg(t, "Failed to update document"), "direct")
                 \cup Emit(InRoom(ConnInst[t.sock], t.documentId) \ {t.sock},
                           [Msg("document:update", t.documentId, t.id) EXCEPT
                               !.content = t.content, !.socketId = t.sock], "local")
    /\ Finish(t)
    /\ UNCHANGED <<conn, rooms, currentDocument, activeUsers, docs, presence,
                   relay, nextTid, lastOp, joinOk, saves, faultLog, faulty>>

\* the catch block: socket.emit('error', 'Failed to update document')
EditCatch(t) ==
    /\ outbox' = Emit({t.sock}, ErrorMsg(t, "Failed to update document"), "direct")
    /\ Finish(t)
    /\ UNCHANGED <<conn, rooms, currentDocument, activeUsers, docs, presence,
                   relay, nextTid, lastOp, joinOk, saves, faultLog, faulty>>

\* document.save(): the paths modified on the in-memory document are written;
\* content is written when it differs from what findById returned
SaveDocument(stored, document, content, userId) ==
    [stored EXCEPT !.content = IF content # document.content THEN content ELSE @,
                   !.version = document.version + 1,
                   !.lastEditedBy = userId]

\* after findById: the write-permission check, the update and document.save()
EditAfterFindById(t) ==
    /\ t \in tasks /\ t.kind = "edit" /\ t.pc = "findById"
    /\ IF t.failed THEN EditCatch(t)
       ELSE IF ~HasWriteAccess(t.document, UserOf(t.sock))
       THEN /\ outbox' = Emit({t.sock}, ErrorMsg(t, "No write permission"), "direct")
            /\ Finish(t)
            /\ UNCHANGED <<conn, rooms, currentDocument, activeUsers, docs, presence,
                           relay, nextTid, lastOp, joinOk, saves, faultLog, faulty>>
       ELSE /\ \E f \in MayFail("save") :
                  /\ docs' = IF f THEN docs
                             ELSE [docs EXCEPT ![t.documentId] =
                                      SaveDocument(@, t.document, t.content, UserOf(t.sock))]
                  /\ saves' = IF f THEN saves
                              ELSE Append(saves, [documentId |-> t.documentId,
                                                  version |-> t.document.version + 1,
                                                  content |-> t.content, tid |-> t.id,
                                                  sock |-> t.sock])
                  /\ Suspend(t, [t EXCEPT !.pc = "save", !.failed = f,
                                          !.document.content = t.content,
                                          !.document.version = @ + 1,
                                          !.document.lastEditedBy = UserOf(t.sock)])
                  /\ LogFault(f, "save", t.id)
            /\ outbox' = {}
            /\ UNCHANGED <<conn, rooms, currentDocument, activeUsers, presence, relay,
                           nextTid, lastOp, joinOk>>

\* an update message that carries the version findById read, not the one saved
UpdateDataVersionRead(t) ==
    [Msg("document:update", t.documentId, t.id) EXCEPT
        !.content = t.content, !.version = t.document.version - 1,
        !.userId = UserOf(t.sock), !.socketId = t.sock]

UpdateData(t) ==
    [Msg("document:update", t.documentId, t.id) EXCEPT
        !.content = t.content, !.version = t.document.version,
        !.userId = UserOf(t.sock), !.socketId = t.sock]

\* after save: updateData is built and published to the relay
EditAfterSave(t) ==
    /\ t \in tasks /\ t.kind = "edit" /\ t.pc = "save"
    /\ IF t.failed THEN EditCatch(t)
       ELSE /\ \E f \in MayFail("publish") :
                  /\ Publish(UpdateData(t), f)
                  /\ Suspend(t, [t EXCEPT !.pc = "publish", !.failed = f])
                  /\ LogFault(f, "publish", t.id)
            /\ outbox' = {}
            /\ UNCHANGED <<conn, rooms, currentDocument, activeUsers, docs, presence,
                           nextTid, lastOp, joinOk, saves>>

\* after publish: socket.to(documentId).emit('document:update')
EditAfterPublish(t) ==
    /\ t \in tasks /\ t.kind = "edit" /\ t.pc = "publish"
    /\ IF t.failed THEN EditCatch(t)
       ELSE /\ outbox' = Emit(InRoom(ConnInst[t.sock], t.documentId) \ {t.sock},
                                UpdateData(t), "local")
            /\ Finish(t)
            /\ UNCHANGED <<conn, rooms, currentDocument, activeUsers, docs, presence,
                           relay, nextTid, lastOp, joinOk, saves, faultLog, faulty>>

(***************************************************************************)
(* handleCursorPosition and handleTypingIndicator                          *)
(***************************************************************************)
CursorData(c, d, tid) ==
    [Msg("cursor:move", d, tid) EXCEPT !.userId = UserOf(c), !.socketId = c]

\* socket.on('cursor:position'): cursorData is built and published to the relay
CursorPosition(c, d) ==
    /\ Registered(c)
    /\ nextTid <= MaxEvents
    /\ \E f \in MayFail("publish") :
          /\ Publish(CursorData(c, d, nextTid), f)
          /\ tasks' = tasks \cup {NewTask(nextTid, c, "cursor", d, "", "publish", f)}
          /\ LogFault(f, "publish", nextTid)
    /\ nextTid' = nextTid + 1
    /\ outbox' = {}
    /\ UNCHANGED <<conn, rooms, currentDocument, activeUsers, docs, presence,
                   lastOp, joinOk, saves>>

\* after publish: socket.to(documentId).emit('cursor:move'); the catch block
\* only logs
CursorAfterPublish(t) ==
    /\ t \in tasks /\ t.kind = "cursor" /\ t.pc = "publish"
    /\ outbox' = IF t.failed THEN {}
                 ELSE Emit(InRoom(ConnInst[t.sock], t.documentId) \ {t.sock},
                           CursorData(t.sock, t.documentId, t.id), "local")
    /\ Finish(t)
    /\ UNCHANGED <<conn, rooms, currentDocument, activeUsers, docs, presence,
                   relay, nextTid, lastOp, joinOk, saves, faultLog, faulty>>

\* the user:typing payload (userId, username, isTyping); documentId here is the
\* room it is emitted to
TypingData(c, d, tid) ==
    [Msg("user:typing", d, tid) EXCEPT !.userId = UserOf(c)]

\* socket.on('user:typing'): socket.to(documentId).emit('user:typing'), with
\* no await and no publish
TypingIndicator(c, d) ==
    /\ Registered(c)
    /\ nextTid <= MaxEvents
    /\ outbox' = Emit(InRoom(ConnInst[c], d) \ {c}, TypingData(c, d, nextTid), "local")
    /\ nextTid' = nextTid + 1
    /\ UNCHANGED <<conn, rooms, currentDocument, activeUsers, docs, presence,
                   relay, tasks, lastOp, joinOk, saves, faultLog, faulty>>

(***************************************************************************)
(* setupRedisSubscriptions: an instance receives a relayed message         *)
(***************************************************************************)
RelayTargetsNoExcept(i, m) == InRoom(i, m.documentId)

RelayTargets(i, m) ==
    IF m.type \in {"document:update", "cursor:move"}
    THEN InRoom(i, m.documentId) \ {m.socketId}
    ELSE InRoom(i, m.documentId)

RelayDeliver(i) ==
    /\ relay[i] # <<>>
    /\ relay' = [relay EXCEPT ![i] = Tail(@)]
    /\ outbox' = Emit(RelayTargets(i, Head(relay[i])), Head(relay[i]), "relay")
    /\ UNCHANGED <<conn, rooms, currentDocument, activeUsers, docs, presence,
                   tasks, nextTid, lastOp, joinOk, saves, faultLog, faulty>>

(***************************************************************************)
(* The specifications.  Spec is the whole service from start-up.  The      *)
(* others run the same actions from quiescent states of Spec, with the     *)
(* clients' requests drawn from the sets named in their next-state         *)
(* relation.                                                               *)
(***************************************************************************)
JoinSteps ==
    \/ \E t \in tasks : JoinAfterFindById(t)
    \/ \E t \in tasks : JoinAfterSAdd(t)
    \/ \E t \in tasks : JoinAfterSMembers(t)
    \/ \E t \in tasks : JoinAfterPublish(t)

LeaveSteps ==
    \/ \E t \in tasks : LeaveAfterSRem(t)
    \/ \E t \in tasks : LeaveAfterSMembers(t)
    \/ \E t \in tasks : LeaveAfterPublish(t)

EditSteps ==
    \/ \E t \in tasks : EditAfterFindById(t)
    \/ \E t \in tasks : EditAfterSave(t)
    \/ \E t \in tasks : EditAfterPublish(t)

Next ==
    \/ \E c \in Conns : \E token \in ClientTokens[c] : Connect(c, token)
    \/ \E c \in Conns : Disconnect(c)
    \/ \E c \in Conns : \E d \in Docs : DocumentJoin(c, d)
    \/ \E c \in Conns : \E d \in Docs : DocumentLeave(c, d)
    \/ \E c \in Conns : \E d \in Docs : \E content \in Contents : DocumentEdit(c, d, content)
    \/ \E c \in Conns : \E d \in Docs : CursorPosition(c, d)
    \/ \E c \in Conns : \E d \in Docs : TypingIndicator(c, d)
    \/ JoinSteps
    \/ LeaveSteps
    \/ EditSteps
    \/ \E t \in tasks : CursorAfterPublish(t)
    \/ \E i \in Insts : RelayDeliver(i)

Spec == Init /\ [][Next]_vars

\* Rooms and presence: user 1 on both instances (s1, s3), user 3 beside it (s2)
RoomsTab == [c \in Conns |-> IF c = "s2" THEN 3 ELSE 1]
RoomsJoined == {j \in [Conns -> {Null, "dA"}] : j["s2"] = Null}

InitRooms ==
    \E pub \in BOOLEAN : \E j \in RoomsJoined : World(RoomsTab, j, pub, ExternalCalls)

NextRooms ==
    \/ \E c \in Conns : Disconnect(c)
    \/ \E c \in Conns : \E d \in Docs : DocumentJoin(c, d)
    \/ \E c \in Conns : \E d \in Docs : DocumentLeave(c, d)
    \/ JoinSteps
    \/ LeaveSteps
    \/ \E i \in Insts : RelayDeliver(i)

SpecRooms == InitRooms /\ [][NextRooms]_vars

\* Editing: the owner of dA (s1) and a 'read' collaborator (s2) on one
\* instance, a 'write' collaborator (s3) on the other
EditTab == [c \in Conns |-> CASE c = "s1" -> 1 [] c = "s2" -> 3 [] OTHER -> 2]
EditJoined == {j \in [Conns -> {Null, "dA"}] : TRUE}

InitEdit ==
    \E pub \in BOOLEAN : \E j \in EditJoined : World(EditTab, j, pub, ExternalCalls)

NextEdit ==
    \/ \E c \in Conns : \E d \in Docs : DocumentJoin(c, d)
    \/ \E c \in Conns : \E d \in Docs : \E content \in Contents : DocumentEdit(c, d, content)
    \/ JoinSteps
    \/ EditSteps
    \/ \E i \in Insts : RelayDeliver(i)

SpecEdit == InitEdit /\ [][NextEdit]_vars

\* The handshake: every client presents any of its tokens
NextAuth ==
    \/ \E c \in Conns : \E token \in ClientTokens[c] : Connect(c, token)
    \/ \E c \in Conns : Disconnect(c)
    \/ \E c \in Conns : DocumentJoin(c, "dA")
    \/ \E c \in Conns : DocumentLeave(c, "dA")
    \/ \E c \in Conns : DocumentEdit(c, "dA", "x")
    \/ JoinSteps
    \/ LeaveSteps
    \/ EditSteps
    \/ \E i \in Insts : RelayDeliver(i)

InitAuth ==
    \E pub \in BOOLEAN : World(NobodyConnected, NobodyJoined, pub, ExternalCalls)

SpecAuth == InitAuth /\ [][NextAuth]_vars

\* The presence store stops answering: the call a join handler awaits (sAdd
\* or sMembers, awaited with no timeout) is never answered, so the handler has
\* no continuation
NoAnswer(t) ==
    /\ t \in tasks /\ t.kind = "join" /\ ~t.failed
    /\ t.pc \in {"sAdd", "sMembers"} \cap faulty
    /\ Len(faultLog) < MaxFaults
    /\ Suspend(t, [t EXCEPT !.pc = "noAnswer"])
    /\ LogFault(TRUE, "noAnswer", t.id)
    /\ outbox' = {}
    /\ UNCHANGED <<conn, rooms, currentDocument, activeUsers, docs, presence,
                   relay, nextTid, lastOp, joinOk, saves>>

\* Joins against a presence store that may reject or stop answering.  The
\* event loop runs the continuation of every handler whose awaited call has
\* been answered, and every instance handles the messages of its subscription.
InitWait ==
    \E pub \in BOOLEAN : \E j \in RoomsJoined :
        World(RoomsTab, j, pub, {"sAdd", "sMembers"})

JoinStep(n) ==
    \E t \in tasks :
        /\ t.id = n
        /\ \/ JoinAfterFindById(t)
           \/ JoinAfterSAdd(t)
           \/ JoinAfterSMembers(t)
           \/ JoinAfterPublish(t)

NextWait ==
    \/ \E c \in Conns : \E d \in Docs : DocumentJoin(c, d)
    \/ \E n \in 1..MaxEvents : JoinStep(n)
    \/ \E t \in tasks : NoAnswer(t)
    \/ \E i \in Insts : RelayDeliver(i)

SpecWait ==
    /\ InitWait
    /\ [][NextWait]_vars
    /\ \A n \in 1..MaxEvents : WF_vars(JoinStep(n))
    /\ \A i \in Insts : WF_vars(RelayDeliver(i))

\* Signals: cursor positions and typing indicators among the connections of
\* SpecEdit, any of them joined to dA
InitSignal ==
    \E pub \in BOOLEAN : \E j \in EditJoined : World(EditTab, j, pub, ExternalCalls)

NextSignal ==
    \/ \E c \in Conns : \E d \in Docs : CursorPosition(c, d)
    \/ \E c \in Conns : \E d \in Docs : TypingIndicator(c, d)
    \/ \E c \in Conns : \E d \in Docs : DocumentJoin(c, d)
    \/ JoinSteps
    \/ \E t \in tasks : CursorAfterPublish(t)
    \/ \E i \in Insts : RelayDeliver(i)

SpecSignal == InitSignal /\ [][NextSignal]_vars

\* Events: every kind of client event among the connections of SpecEdit, the
\* owner joined to dA at the start
EventsJoined == {j \in [Conns -> {Null, "dA"}] : j["s1"] = "dA"}

InitEvents ==
    \E pub \in BOOLEAN : \E j \in EventsJoined : World(EditTab, j, pub, ExternalCalls)

NextEvents ==
    \/ \E c \in Conns : Disconnect(c)
    \/ \E c \in Conns : \E d \in Docs : DocumentJoin(c, d)
    \/ \E c \in Conns : \E d \in Docs : DocumentLeave(c, d)
    \/ \E c \in Conns : \E d \in Docs : DocumentEdit(c, d, "x")
    \/ \E c \in Conns : \E d \in Docs : CursorPosition(c, d)
    \/ \E c \in Conns : \E d \in Docs : TypingIndicator(c, d)
    \/ JoinSteps
    \/ LeaveSteps
    \/ EditSteps
    \/ \E t \in tasks : CursorAfterPublish(t)
    \/ \E i \in Insts : RelayDeliver(i)

SpecEvents == InitEvents /\ [][NextEvents]_vars

(***************************************************************************)
(* The properties.  Quiescent: every handler has finished.                 *)
(***************************************************************************)
Quiescent == tasks = {}

\* the latest join/leave event of connection c on document d was a join, and
\* that join ran to its end without an error
LastJoinSucceeded(c, d) ==
    lastOp[c][d].kind = "join" /\ lastOp[c][d].tid \in joinOk

SavesOf(d) == {k \in 1..Len(saves) : saves[k].documentId = d}

\* C1: once all handlers have finished, a (live) connection is in a document's
\* room iff its latest join/leave event on that document was a join that
\* succeeded.
C1_JoinedIffLastJoinSucceeded ==
    Quiescent =>
        \A c \in Conns : \A d \in Docs :
            conn[c].status = "connected" =>
                ((d \in rooms[c]) <=> LastJoinSucceeded(c, d))

\* C2: a connection is never in more than one document room at a time.
C2_AtMostOneRoom == \A c \in Conns : Cardinality(rooms[c]) <= 1

\* C3: once all handlers have finished and no presence-store call has failed,
\* the Redis set of every document holds exactly the identities of the live
\* connections whose latest join/leave event on it was a successful join.
C3_PresenceExact ==
    (Quiescent /\ faultLog = <<>>) =>
        \A d \in Docs :
            presence[d] =
                {UserIdToString(UserOf(c)) :
                    c \in {x \in Conns : conn[x].status = "connected"
                                         /\ LastJoinSucceeded(x, d)}}

\* C4: of two saves of the same document, the later one in store order carries
\* the greater version.
C4_VersionsIncrease ==
    \A d \in Docs : \A k \in SavesOf(d) : \A l \in SavesOf(d) :
        k < l => saves[l].version > saves[k].version

\* C5: no two accepted edits are persisted with the same version: after n saves
\* of a document its stored version has advanced by n (from the schema's 1).
C5_VersionCountsSaves ==
    \A d \in Docs : docs[d].version = 1 + Cardinality(SavesOf(d))

\* C6: no document:update is ever written to the socket that sent the edit,
\* neither by the local broadcast nor by the relay subscription handler.
C6_NoEcho ==
    \A e \in outbox :
        e.msg.type = "document:update" => e.to # e.msg.socketId

\* the relay handler of the sender's own instance delivers the sender's update
\* to the room while the sender is in it
C6_Witness ==
    \E e \in outbox :
        /\ e.msg.type = "document:update" /\ e.msg.via = "relay"
        /\ ConnInst[e.msg.socketId] = ConnInst[e.to]
        /\ e.msg.documentId \in rooms[e.msg.socketId]
        /\ conn[e.msg.socketId].status = "connected"

\* the identity holds no grant on the document: not its owner, not one of its
\* collaborators, and the document is not public
NoGrant(u, d) ==
    /\ docs[d].ownerId # u
    /\ docs[d].collaborators[u] = NoPermission
    /\ ~docs[d].isPublic

\* C7: a join by an identity with no grant on the document ends at the access
\* check: the sender gets the 'Access denied' error and nothing else is sent;
\* room, socket.currentDocument, local map, presence set and relay are untouched.
C7_AccessDenied ==
    [][\A t \in tasks :
          (t.kind = "join" /\ ~t.failed /\ NoGrant(UserOf(t.sock), t.documentId)) =>
              /\ t.pc = "findById"
              /\ t \notin tasks' =>
                    /\ \A t2 \in tasks' : t2.id # t.id
                    /\ \A e \in outbox' : /\ e.to = t.sock
                                          /\ e.msg.type = "error"
                                          /\ e.msg.action = "Access denied"
                    /\ conn[t.sock].status = "connected" => outbox' # {}
                    /\ rooms' = rooms
                    /\ currentDocument' = currentDocument
                    /\ activeUsers' = activeUsers
                    /\ presence' = presence
                    /\ relay' = relay]_vars

\* a connection that holds no grant on a document has just been answered
\* 'Access denied' and is in no room
C7_Witness ==
    \E e \in outbox :
        /\ e.msg.type = "error" /\ e.msg.action = "Access denied"
        /\ NoGrant(UserOf(e.to), e.msg.documentId)
        /\ rooms[e.to] = {}

\* the identity may not write: not the owner, no 'write' or 'admin' collaborator
NoWriteGrant(u, d) ==
    /\ docs[d].ownerId # u
    /\ docs[d].collaborators[u] \notin {"write", "admin"}

\* C8: an edit by an identity that may not write ends at the permission check:
\* the sender gets the 'No write permission' error and nothing else is sent;
\* the stored document is unchanged and nothing is published.
C8_NoWritePermission ==
    [][\A t \in tasks :
          (t.kind = "edit" /\ ~t.failed /\ NoWriteGrant(UserOf(t.sock), t.documentId)) =>
              /\ t.pc = "findById"
              /\ t \notin tasks' =>
                    /\ \A t2 \in tasks' : t2.id # t.id
                    /\ \A e \in outbox' : /\ e.to = t.sock
                                          /\ e.msg.type = "error"
                                          /\ e.msg.action = "No write permission"
                    /\ conn[t.sock].status = "connected" => outbox' # {}
                    /\ docs' = docs
                    /\ saves' = saves
                    /\ relay' = relay]_vars

\* a 'read' collaborator, joined to the document, has just been answered
\* 'No write permission'
C8_Witness ==
    \E e \in outbox :
        /\ e.msg.type = "error" /\ e.msg.action = "No write permission"
        /\ docs[e.msg.documentId].collaborators[UserOf(e.to)] = "read"
        /\ e.msg.documentId \in rooms[e.to]
        /\ saves = <<>>

\* C9: an edit from a connection that is not in the document's room does not
\* write the store and broadcasts no document:update.
C9_EditRequiresJoin ==
    [][\A t \in tasks :
          (t.kind = "edit" /\ t \notin tasks' /\ t.documentId \notin rooms[t.sock]) =>
              /\ docs' = docs
              /\ relay' = relay
              /\ \A e \in outbox' : e.msg.type # "document:update"]_vars

\* the tokens auth-service signed and that have not expired
SignedTokens == {TokenOf(u) : u \in Users}

\* C10: for a connection whose token is missing or fails verification no
\* handler ever runs: the socket is refused (or has not connected yet), no
\* handler of it is in flight, no join or leave of it was accepted, and it is
\* in no room.
C10_NoEventBeforeAuth ==
    \A c \in Conns :
        conn[c].token \notin SignedTokens =>
            /\ conn[c].status \in {"idle", "refused"}
            /\ conn[c].user = NoUser
            /\ \A t \in tasks : t.sock # c
            /\ \A d \in Docs : lastOp[c][d].kind = "none"
            /\ rooms[c] = {}
            /\ currentDocument[c] = Null

\* one client was refused for a forged token, one for none, while a handler of
\* an authenticated connection is in flight
C10_Witness ==
    /\ conn["s2"].status = "refused" /\ conn["s2"].token = "forged"
    /\ conn["s3"].status = "refused"
    /\ tasks # {}

\* C11: a join, by a connection that was not in the room, whose presence-store
\* add (sAdd) or read-back (sMembers) fails is rolled back: when its handler
\* ends, the connection is not in the document's room, socket.currentDocument
\* is not the document, and the identity is not in the instance's active-users
\* map for the document.
C11_JoinAllOrNothing ==
    [][\A t \in tasks :
          (/\ t.kind = "join" /\ t.failed /\ t.pc \in {"sAdd", "sMembers"}
           /\ ~t.wasInRoom
           /\ \A t2 \in tasks' : t2.id # t.id) =>
              /\ t.documentId \notin rooms'[t.sock]
              /\ currentDocument'[t.sock] # t.documentId
              /\ UserOf(t.sock) \notin activeUsers'[ConnInst[t.sock]][t.documentId]]_vars

\* the events in which the store read or the save of an edit failed
PersistFailed ==
    {faultLog[k].tid : k \in {x \in 1..Len(faultLog) :
                                 faultLog[x].op \in {"findById", "save"}}}

\* C12: when the store read or the save of an edit fails, the handler ends
\* with the 'Failed to update document' error to the sender only; the store is
\* not written (no retry), nothing is published, and no document:update of
\* that edit is ever emitted or relayed.
C12_PersistFailed ==
    [][/\ \A t \in tasks :
             (/\ t.kind = "edit" /\ t.failed /\ t.pc \in {"findById", "save"}
              /\ t \notin tasks') =>
                 /\ \A t2 \in tasks' : t2.id # t.id
                 /\ \A e \in outbox' : /\ e.to = t.sock
                                       /\ e.msg.type = "error"
                                       /\ e.msg.action = "Failed to update document"
                 /\ conn[t.sock].status = "connected" => outbox' # {}
                 /\ docs' = docs
                 /\ saves' = saves
                 /\ relay' = relay
       /\ \A e \in outbox' :
             e.msg.type = "document:update" => e.msg.tid \notin PersistFailed'
       /\ \A i \in Insts : \A k \in 1..Len(relay'[i]) :
             relay'[i][k].type = "document:update" =>
                 relay'[i][k].tid \notin PersistFailed'
       /\ \A k \in 1..Len(saves') : saves'[k].tid \notin PersistFailed']_vars

\* the save of an edit failed and its sender, in the room with another
\* connection of its instance, has just been sent the error
C12_Witness ==
    \E e \in outbox :
        /\ e.msg.type = "error" /\ e.msg.action = "Failed to update document"
        /\ \E k \in 1..Len(faultLog) :
              faultLog[k].op = "save" /\ faultLog[k].tid = e.msg.tid
        /\ \E c \in InRoom(ConnInst[e.to], e.msg.documentId) : c # e.to

\* C13: when the relay publish of a persisted edit fails, the edit does not
\* fail: the sender is sent no error, and the other connections of its
\* instance that are in the room are still sent the document:update.
C13_PublishFailureTolerated ==
    [][\A t \in tasks :
          (/\ t.kind = "edit" /\ t.failed /\ t.pc = "publish"
           /\ t \notin tasks') =>
              /\ \A e \in outbox' : e.msg.type # "error"
              /\ \A c \in InRoom(ConnInst[t.sock], t.documentId) \ {t.sock} :
                    \E e \in outbox' : /\ e.to = c
                                       /\ e.msg.type = "document:update"
                                       /\ e.msg.tid = t.id]_vars

\* C14: a document:content message carries the content and version the store
\* holds when the message is sent.
C14_ContentIsLatest ==
    \A e \in outbox :
        e.msg.type = "document:content" =>
            /\ e.msg.version = docs[e.msg.documentId].version
            /\ e.msg.content = docs[e.msg.documentId].content

\* C15: when a connection disconnects, the Leave steps are started exactly
\* once for every document whose room it is in (a leave handler for it is
\* started and, unless sRem fails, the identity is taken out of the document's
\* presence set), and for a connection in no room nothing is written to the
\* presence store, no handler is started and nothing is emitted.
C15_DisconnectLeavesOnce ==
    [][\A c \in Conns :
          (conn[c].status = "connected" /\ conn'[c].status = "disconnected") =>
              /\ \A d \in rooms[c] :
                    \E t \in tasks' \ tasks :
                        /\ t.kind = "leave" /\ t.sock = c /\ t.documentId = d
                        /\ ~t.failed => UserIdToString(UserOf(c)) \notin presence'[d]
              /\ Cardinality(tasks' \ tasks) = Cardinality(rooms[c])
              /\ rooms[c] = {} => (presence' = presence /\ outbox' = {})]_vars

\* the user:presence messages just emitted or waiting on the relay
PresenceMsgs ==
    {m \in {e.msg : e \in outbox}
           \cup UNION {{relay[i][k] : k \in 1..Len(relay[i])} : i \in Insts} :
        m.type = "user:presence"}

\* C16: the activeUsers of every user:presence message of a Join contains the
\* joining identity (stated for the joins of connections that are still
\* connected and have sent no leave for the document since).
C16_JoinPresenceHasJoiner ==
    \A m \in PresenceMsgs :
        (/\ m.action = "joined"
         /\ \E c \in Conns : /\ conn[c].status = "connected"
                              /\ lastOp[c][m.documentId] = [kind |-> "join", tid |-> m.tid])
            => m.userId \in m.activeUsers

\* the identities of the live connections that are in the room of document d
JoinedIdentities(d) ==
    {UserOf(c) : c \in {x \in Conns : conn[x].status = "connected" /\ d \in rooms[x]}}

\* C17: when a join succeeds, every connection of the joiner's instance that
\* is in the document's room is sent the user:presence event of that join, and
\* its activeUsers contains the identity of every connection in the room.
C17_JoinPresenceToRoom ==
    [][\A t \in tasks :
          (/\ t.kind = "join" /\ t.pc = "publish" /\ ~t.failed
           /\ t \notin tasks') =>
              \A c \in InRoom(ConnInst[t.sock], t.documentId) :
                  \E e \in outbox' :
                      /\ e.to = c
                      /\ e.msg.type = "user:presence"
                      /\ e.msg.tid = t.id
                      /\ JoinedIdentities(t.documentId) \subseteq e.msg.activeUsers]_vars

\* C18: when the handler of a leave of a connection that was in the room ends
\* (and neither sRem nor sMembers has failed), every other connection of the
\* leaver's instance that is in the document's room is sent the user:presence
\* event of that leave, whose activeUsers does not contain the leaving
\* identity, and the local broadcast does not send the event to the leaving
\* connection.
C18_LeavePresenceToRoom ==
    [][\A t \in tasks :
          (/\ t.kind = "leave" /\ t.wasInRoom /\ \A t2 \in tasks' : t2.id # t.id
           /\ ~(t.failed /\ t.pc \in {"sRem", "sMembers"})) =>
              /\ \A c \in InRoom(ConnInst[t.sock], t.documentId) \ {t.sock} :
                    \E e \in outbox' :
                        /\ e.to = c
                        /\ e.msg.type = "user:presence"
                        /\ e.msg.tid = t.id
                        /\ e.msg.action = "left"
                        /\ UserOf(t.sock) \notin e.msg.activeUsers
              /\ \A e \in outbox' :
                    ~(e.to = t.sock /\ e.msg.tid = t.id /\ e.msg.via = "local")]_vars

\* C19: every request whose handler fails is answered: when the handler of a
\* live connection ends after one of its calls failed, an 'error' event is
\* sent to that connection.
C19_NoSilentDrop ==
    [][\A t \in tasks :
          (/\ t.failed /\ \A t2 \in tasks' : t2.id # t.id
           /\ conn[t.sock].status = "connected") =>
              \E e \in outbox' : e.to = t.sock /\ e.msg.type = "error"]_vars

\* C20: the edits of one connection on one document are saved in the order
\* the connection sent them, and once both handlers have finished the stored
\* content is that of the later edit.
C20_OwnEditsInOrder ==
    \A k \in 1..Len(saves) : \A l \in 1..Len(saves) :
        (/\ k < l
         /\ saves[k].sock = saves[l].sock
         /\ saves[k].documentId = saves[l].documentId) =>
            /\ saves[k].tid < saves[l].tid
            /\ (Quiescent /\ Cardinality(SavesOf(saves[k].documentId)) = 2) =>
                  docs[saves[k].documentId].content = saves[l].content

\* C21: cursor and typing signals are fanned out twice.  A cursor position
\* whose publish succeeds is on the relay of every instance when its handler
\* starts, and is emitted to the other connections of the sender's instance in
\* the room when the handler ends; a typing indicator emitted to the local
\* room is also on the relay of every instance.
C21_SignalsFannedOutTwice ==
    [][/\ \A t \in tasks' \ tasks :
             (t.kind = "cursor" /\ ~t.failed) =>
                 \A i \in Insts :
                     /\ relay'[i] # <<>>
                     /\ relay'[i][Len(relay'[i])].type = "cursor:move"
                     /\ relay'[i][Len(relay'[i])].tid = t.id
       /\ \A t \in tasks \ tasks' :
             (t.kind = "cursor" /\ ~t.failed) =>
                 /\ \A c \in InRoom(ConnInst[t.sock], t.documentId) \ {t.sock} :
                       \E e \in outbox' : /\ e.to = c
                                          /\ e.msg.type = "cursor:move"
                                          /\ e.msg.tid = t.id
                 /\ \A e \in outbox' : e.to # t.sock
       /\ \A e \in outbox' :
             (e.msg.type = "user:typing" /\ e.msg.via = "local") =>
                 \A i \in Insts :
                     \E k \in 1..Len(relay'[i]) :
                         /\ relay'[i][k].type = "user:typing"
                         /\ relay'[i][k].tid = e.msg.tid]_vars

\* connection c was joined to document d at the start and has sent no join or
\* leave for it since
JoinedFromStart(c, d) == lastOp[c][d] = [kind |-> "join", tid |-> 0]

\* the presence set of document d before the handler t, the first handler of
\* the behaviour, started
PresenceBefore(t, d) ==
    {UserIdToString(UserOf(c)) :
        c \in {x \in Conns : IF x = t.sock /\ d = t.documentId
                             THEN t.wasInRoom
                             ELSE JoinedFromStart(x, d)}}

\* C22: when a handler ends after one of its calls failed, and no other event
\* has arrived meanwhile, every other connection is in the rooms it was in
\* before, has the currentDocument it had, its identity is still in the
\* presence set of the document it is joined to, and the identities other
\* than the failing connection's are in the presence sets they were in before.
C22_FailureIsolated ==
    [][\A t \in tasks :
          (/\ t.failed /\ \A t2 \in tasks' : t2.id # t.id
           /\ t.id = 1 /\ nextTid = 2) =>
              \A c \in Conns \ {t.sock} : \A d \in Docs :
                  /\ (d \in rooms'[c]) <=> JoinedFromStart(c, d)
                  /\ (currentDocument'[c] = d) <=> JoinedFromStart(c, d)
                  /\ JoinedFromStart(c, d) =>
                        UserIdToString(UserOf(c)) \in presence'[d]
                  /\ UserOf(c) # UserOf(t.sock) =>
                        ((UserIdToString(UserOf(c)) \in presence'[d])
                            <=> (UserIdToString(UserOf(c)) \in PresenceBefore(t, d)))]_vars

\* C23: every join terminates: a join handler that has started eventually
\* ends, also when the presence store does not answer.
C23_JoinTerminates ==
    \A n \in 1..MaxEvents :
        (\E t \in tasks : t.id = n /\ t.kind = "join")
            ~> ~(\E t \in tasks : t.id = n)

\* C24: a leave whose presence-store removal (sRem) fails is complete locally:
\* the step that starts it takes the connection out of the document's room,
\* sets socket.currentDocument to null and deletes the identity from the
\* instance's active-users map, and the catch block that ends it undoes none
\* of this.
C24_LeaveLocalDespiteFailure ==
    [][/\ \A t \in tasks' \ tasks :
             (t.kind = "leave" /\ t.failed /\ t.pc = "sRem") =>
                 /\ t.documentId \notin rooms'[t.sock]
                 /\ currentDocument'[t.sock] = Null
                 /\ UserOf(t.sock) \notin activeUsers'[ConnInst[t.sock]][t.documentId]
       /\ \A t \in tasks \ tasks' :
             (t.kind = "leave" /\ t.failed /\ t.pc = "sRem") =>
                 /\ rooms' = rooms
                 /\ currentDocument' = currentDocument
                 /\ activeUsers' = activeUsers]_vars

\* the handler of a leave by a live connection that was in the room has ended
\* after its sRem failed: the connection is out of the room and the identity
\* is still in the presence set
C24_Witness ==
    /\ Quiescent
    /\ \E c \in Conns : \E d \in Docs :
          /\ conn[c].status = "connected"
          /\ lastOp[c][d].kind = "leave"
          /\ \E k \in 1..Len(faultLog) :
                faultLog[k] = [op |-> "sRem", tid |-> lastOp[c][d].tid]
          /\ d \notin rooms[c]
          /\ currentDocument[c] = Null
          /\ UserIdToString(UserOf(c)) \in presence[d]

\* C25: an accepted edit's document:update reaches every non-sender connection
\* of the originating instance exactly once.  When the edit's handler has
\* ended (its local broadcast has reached every connection of its instance
\* that has been in the room all along), the relay subscription handler does
\* not write the same update to such a connection of the originating instance
\* again.
C25_RelayNotTwiceOnOrigin ==
    \A e \in outbox :
        (/\ e.msg.type = "document:update" /\ e.msg.via = "relay"
         /\ JoinedFromStart(e.to, e.msg.documentId)
         /\ \A t \in tasks : t.id # e.msg.tid) =>
            ConnInst[e.to] # ConnInst[e.msg.socketId]

\* C26: every document:update, delivered locally or through the relay, is that
\* of a save that was written: it carries the content of that edit, the
\* identity of the editor, the id of the socket the edit came from, and the
\* version that this edit's save wrote to the store.
C26_UpdateCarriesSave ==
    \A e \in outbox : e.msg.type = "document:update" =>
        \E k \in 1..Len(saves) :
            /\ saves[k].tid = e.msg.tid
            /\ saves[k].documentId = e.msg.documentId
            /\ saves[k].content = e.msg.content
            /\ saves[k].version = e.msg.version
            /\ saves[k].sock = e.msg.socketId
            /\ UserOf(saves[k].sock) = e.msg.userId

\* the update of the second of two saved edits of one document is delivered
\* to another connection
C26_Witness ==
    /\ Len(saves) = 2
    /\ saves[1].documentId = saves[2].documentId
    /\ \E e \in outbox :
          /\ e.msg.type = "document:update"
          /\ e.msg.tid = saves[2].tid
          /\ e.to # e.msg.socketId

\* the events that are broadcast to a document's room
RoomEvents == {"document:update", "cursor:move", "user:typing", "user:presence"}

\* C27: a document:update, cursor:move, user:typing or user:presence event for
\* a document is written only to sockets that are in the document's room; a
\* socket enters a room only at the access check of a join handler of its own
\* for that document, with the check passed for its identity; and every socket
\* in a room has a grant on the document (owner, collaborator or public).
C27_EventsOnlyToAdmittedMembers ==
    [][/\ \A e \in outbox' :
             e.msg.type \in RoomEvents => e.msg.documentId \in rooms'[e.to]
       /\ \A c \in Conns : \A d \in rooms'[c] \ rooms[c] :
             \E t \in tasks :
                 /\ t.kind = "join" /\ t.sock = c /\ t.documentId = d
                 /\ t.pc = "findById" /\ ~t.failed
                 /\ HasAccess(t.document, UserOf(c))
       /\ \A c \in Conns : \A d \in rooms'[c] : ~NoGrant(UserOf(c), d)]_vars

\* a room event for a document is written to a member of its room while another
\* connected socket of the same instance, which did not send it, is not in
\* that room
C27_Witness ==
    \E e \in outbox : \E c \in Conns :
        /\ e.msg.type \in RoomEvents
        /\ c # e.to /\ c # e.msg.socketId
        /\ ConnInst[c] = ConnInst[e.to]
        /\ conn[c].status = "connected"
        /\ e.msg.documentId \notin rooms[c]
        /\ NoGrant(UserOf(c), e.msg.documentId)

\* C28: a cursor:move or user:typing event is written to the sockets of a
\* document's room only for a sender that has joined the document: the socket
\* named in a cursor:move, and a socket of the identity named in a
\* user:typing, has sent a join for that document at some time.
C28_SignalsOnlyFromMembers ==
    \A e \in outbox :
        /\ e.msg.type = "cursor:move" =>
              lastOp[e.msg.socketId][e.msg.documentId].kind # "none"
        /\ e.msg.type = "user:typing" =>
              \E c \in Conns : /\ UserOf(c) = e.msg.userId
                               /\ lastOp[c][e.msg.documentId].kind # "none"

\* C29: a document:leave naming a document whose room the socket is not in
\* changes nothing: at the step that starts its handler the socket's
\* currentDocument and rooms, and the presence set of the named document, are
\* what they were.
C29_LeaveNotJoinedIsNoOp ==
    [][\A t \in tasks' \ tasks :
          (/\ t.kind = "leave" /\ ~t.wasInRoom
           /\ lastOp'[t.sock][t.documentId] = [kind |-> "leave", tid |-> t.id]) =>
              /\ currentDocument'[t.sock] = currentDocument[t.sock]
              /\ rooms'[t.sock] = rooms[t.sock]
              /\ presence'[t.documentId] = presence[t.documentId]]_vars

\* connection c has sent no document:leave, and joins for one document at most
JoinsOfOneDocOnly(c) ==
    /\ \A d \in Docs : lastOp[c][d].kind # "leave"
    /\ Cardinality({d \in Docs : lastOp[c][d].kind = "join"}) <= 1

\* C30: for a socket whose events are joins of one document and a disconnect,
\* in any order of their steps: socket.currentDocument names every room the
\* socket is in; and once all handlers have finished, with no call having
\* failed, the socket if disconnected is in no room and its identity is in a
\* document's presence set only if another, live socket of the same identity
\* is in that document's room.
C30_DisconnectCleansUp ==
    \A c \in Conns : JoinsOfOneDocOnly(c) =>
        /\ rooms[c] \subseteq {currentDocument[c]}
        /\ (Quiescent /\ faultLog = <<>> /\ conn[c].status = "disconnected") =>
              /\ rooms[c] = {}
              /\ \A d \in Docs :
                    UserIdToString(UserOf(c)) \in presence[d] =>
                        \E c2 \in Conns \ {c} :
                            /\ conn[c2].status = "connected"
                            /\ UserOf(c2) = UserOf(c)
                            /\ d \in rooms[c2]
====
